---- MODULE Spec2Model ----
(***************************************************************************)
(* Model of the Aurora monitor (src/aurora.py) and of its timer registry   *)
(* Clock (src/clock.py).                                                   *)
(*                                                                         *)
(* Numbers read from the feeds (local aurora intensity, Kp) are kept in    *)
(* tenths, so that a Kp of 5.7 is the integer 57; threshold levels and the *)
(* last_level attributes keep the unit of the tables (30, 50, ... / 5..9). *)
(* The Polish message texts are written without diacritics.                *)
(* The clock is int(time.time()): whole seconds.  A handler (check, reset, *)
(* add, set, remove, make_step, update_daytime_delay) is one atomic step   *)
(* of the single thread; time passes between handlers.                     *)
(***************************************************************************)
EXTENDS Integers, Sequences, FiniteSets, TLC

VARIABLES
    now,                \* Clock.now: int(time.time())
    events,             \* Clock.events: event id -> [timer, function, delay]
    order,              \* insertion order of the keys of Clock.events
    language,           \* Aurora.language
    is_day,             \* Aurora.is_day
    last_send_time,     \* Aurora.last_send_time
    last_k_level,       \* Aurora.last_k_level
    last_aurora_level,  \* Aurora.last_aurora_level
    pc,                 \* position of the caller (start_loop, or "api")
    iterations,         \* passes of the while loop of start_loop completed
    log,                \* observation: the last monitor call, levels emitted
    step,               \* observation: the last Clock operation
    eval                \* one evaluation of _get_message_from_levels on free inputs

vars == <<now, events, order, language, is_day, last_send_time, last_k_level,
          last_aurora_level, pc, iterations, log, step, eval>>

(***************************************************************************)
(* Constants of src/aurora.py                                              *)
(***************************************************************************)
SECOND == 1
MINUTE == 60
HOUR == 3600
SEND_DELAY == HOUR
SEND_DELAY_DAY == 4 * HOUR
CHECK_DELAY == MINUTE
START_DAY == 6 * HOUR
END_DAY == 19 * HOUR
CHECK_EVENT == 1
RESET_EVENT == 2

AURORA_LEVELS ==
    [pl |-> << <<90, "Lokalnie: 90. Masz ja nad glowa!">>,
               <<80, "Lokalnie: 80. Ogromna szansa!">>,
               <<70, "Lokalnie: 70. Bardzo duza szansa.">>,
               <<50, "Lokalnie: 50. Moze cos sie pojawi. Wypatruj.">>,
               <<30, "Lokalnie: 30. Jezeli bedziesz miec bardzo duzo szczescia">> >>,
     en |-> << <<90, "Locally: 90. You have it on your head!">>,
               <<80, "Locally: 80. Very likely!">>,
               <<70, "Locally: 70. Very likely.">>,
               <<50, "Locally: 50. Something might happen. Take a break.">>,
               <<30, "Locally: 30. If you have a lot of happiness">> >>]

K_INDEX_LEVELS ==
    [pl |-> << <<9, "Globalnie: 9. Musisz ja widziec!">>,
               <<8, "Globalnie: 8. Duza szansa!">>,
               <<7, "Globalnie: 7. Dzisiaj jest spora szansa.">>,
               <<6, "Globalnie: 6. Dzisiaj jest szansa.">>,
               <<5, "Globalnie: 5. Jakas tam szansa dzisiaj jest.">> >>,
     en |-> << <<9, "Globally: 9. You have to see it!">>,
               <<8, "Globally: 8. Very likely!">>,
               <<7, "Globally: 7. There is a lot of chance today.">>,
               <<6, "Globally: 6. There is a chance today.">>,
               <<5, "Globally: 5. There might be a chance today.">> >>]

Languages == {"pl", "en"}

\* Python's None, as returned by _get_message_from_levels.
None == "None"

\* A table level in the unit of the values read from the feeds (tenths).
Tenths(level) == level * 10

(***************************************************************************)
(* Aurora._get_message_from_levels: the first entry of the table, in table *)
(* order, with current_value >= level > last_level sets last_level and     *)
(* gives its message; None and an unchanged last_level if there is none.   *)
(***************************************************************************)
\* Variants of _get_message_from_levels with a plausible slip each: the level
\* compared with >= last_level; the table scanned from its last entry; the new
\* level not stored.
RECURSIVE ScanLevelsRefire(_, _, _, _)
ScanLevelsRefire(current_value, thresholds, last_level, i) ==
    IF i > Len(thresholds)
    THEN [last_level |-> last_level, message |-> None]
    ELSE IF current_value >= Tenths(thresholds[i][1]) /\ thresholds[i][1] >= last_level
         THEN [last_level |-> thresholds[i][1], message |-> thresholds[i][2]]
         ELSE ScanLevelsRefire(current_value, thresholds, last_level, i + 1)

GetMessageRefire(current_value, thresholds, last_level) ==
    ScanLevelsRefire(current_value, thresholds, last_level, 1)

RECURSIVE ScanLevelsBackwards(_, _, _, _)
ScanLevelsBackwards(current_value, thresholds, last_level, i) ==
    IF i < 1
    THEN [last_level |-> last_level, message |-> None]
    ELSE IF current_value >= Tenths(thresholds[i][1]) /\ thresholds[i][1] > last_level
         THEN [last_level |-> thresholds[i][1], message |-> thresholds[i][2]]
         ELSE ScanLevelsBackwards(current_value, thresholds, last_level, i - 1)

GetMessageBackwards(current_value, thresholds, last_level) ==
    ScanLevelsBackwards(current_value, thresholds, last_level, Len(thresholds))

RECURSIVE ScanLevelsNoStore(_, _, _, _)
ScanLevelsNoStore(current_value, thresholds, last_level, i) ==
    IF i > Len(thresholds)
    THEN [last_level |-> last_level, message |-> None]
    ELSE IF current_value >= Tenths(thresholds[i][1]) /\ thresholds[i][1] > last_level
         THEN [last_level |-> last_level, message |-> thresholds[i][2]]
         ELSE ScanLevelsNoStore(current_value, thresholds, last_level, i + 1)

GetMessageNoStore(current_value, thresholds, last_level) ==
    ScanLevelsNoStore(current_value, thresholds, last_level, 1)

RECURSIVE ScanLevels(_, _, _, _)
ScanLevels(current_value, thresholds, last_level, i) ==
    IF i > Len(thresholds)
    THEN [last_level |-> last_level, message |-> None]
    ELSE IF current_value >= Tenths(thresholds[i][1]) /\ thresholds[i][1] > last_level
         THEN [last_level |-> thresholds[i][1], message |-> thresholds[i][2]]
         ELSE ScanLevels(current_value, thresholds, last_level, i + 1)

_get_message_from_levels(current_value, thresholds, last_level) ==
    ScanLevels(current_value, thresholds, last_level, 1)

(***************************************************************************)
(* Configuration of the monitor (src/example.py) and the responses of the  *)
(* external collaborators: the two feeds and the push service.             *)
(***************************************************************************)
LATITUDE == 60
LONGITUDE == 18
LANGUAGE == "pl"

\* No value was read (the fetch did not happen or failed).
NoValue == 0 - 1

\* A response of the aurora feed: response.ok and the "coordinates" list of
\* <<longitude, latitude, aurora>> triples of its JSON body.
AuroraResponses ==
    { [ok |-> FALSE, coordinates |-> << >>],
      [ok |-> TRUE,  coordinates |-> << >>],
      [ok |-> TRUE,  coordinates |-> << <<17, 60, 900>> >>],
      [ok |-> TRUE,  coordinates |-> << <<17, 60, 900>>, <<18, 60, 300>> >>],
      [ok |-> TRUE,  coordinates |-> << <<18, 60, 0>>, <<18, 60, 550>> >>] }

\* A response of the K-index feed: response.ok and the kp_index of each
\* reading of its JSON body, oldest first.
KIndexResponses ==
    { [ok |-> FALSE, readings |-> << >>],
      [ok |-> TRUE,  readings |-> << >>],
      [ok |-> TRUE,  readings |-> << 43 >>],
      [ok |-> TRUE,  readings |-> << 90, 57 >>],
      [ok |-> TRUE,  readings |-> << 50, 90 >>] }

\* response.ok of the push service.
PushResponses == BOOLEAN

Inputs == [aurora : AuroraResponses, k_index : KIndexResponses, push : PushResponses]

(***************************************************************************)
(* Aurora._process_aurora_data: the dict {(lon, lat): aurora}; a later     *)
(* triple of the list overwrites an earlier one with the same key.         *)
(***************************************************************************)
_process_aurora_data(data) ==
    LET key(i) == <<data[i][1], data[i][2]>>
        last(k) == CHOOSE i \in DOMAIN data :
                       key(i) = k /\ \A j \in DOMAIN data : key(j) = k => j <= i
    IN  [k \in {key(i) : i \in DOMAIN data} |-> data[last(k)][3]]

(***************************************************************************)
(* Aurora._evaluate_aurora_level on `self` (the monitor's attributes) and  *)
(* the feed's response.  raised = "" when the call returns.                *)
(***************************************************************************)
EvaluationFailed(self, error) ==
    [raised |-> error, value |-> NoValue, message |-> None, self |-> self]

AuroraLevel(self, local_level, r) ==
    [raised |-> "", value |-> local_level, message |-> r.message,
     self |-> [self EXCEPT !.last_aurora_level = r.last_level]]

\* local_level = coordinates.get((self.longitude, self.latitude), 0)
LocalLevel(coordinates) ==
    IF <<LONGITUDE, LATITUDE>> \in DOMAIN coordinates
    THEN coordinates[<<LONGITUDE, LATITUDE>>] ELSE 0

AuroraCoordinates(self, coordinates, local_level) ==
    IF DOMAIN coordinates = {} THEN EvaluationFailed(self, "ValueError")
    ELSE AuroraLevel(self, local_level,
                     _get_message_from_levels(local_level, AURORA_LEVELS[language],
                                              self.last_aurora_level))

AuroraProcessed(self, coordinates) ==
    AuroraCoordinates(self, coordinates, LocalLevel(coordinates))

_evaluate_aurora_level(self, response) ==
    IF ~response.ok THEN EvaluationFailed(self, "ConnectionError")
    ELSE AuroraProcessed(self, _process_aurora_data(response.coordinates))

(***************************************************************************)
(* Aurora._evaluate_k_index_level with Aurora._download_k_index_data: the  *)
(* last reading of the response is the value.                              *)
(***************************************************************************)
KIndexLevel(self, k_index, r) ==
    [raised |-> "", value |-> k_index, message |-> r.message,
     self |-> [self EXCEPT !.last_k_level = r.last_level]]

KIndexRead(self, k_index) ==
    KIndexLevel(self, k_index,
                _get_message_from_levels(k_index, K_INDEX_LEVELS[language],
                                         self.last_k_level))

\* A variant of _evaluate_k_index_level with a slip: a failed fetch gives no
\* message instead of raising.
KIndexFailureIgnored(self, response) ==
    IF ~response.ok \/ response.readings = << >>
    THEN [raised |-> "", value |-> NoValue, message |-> None, self |-> self]
    ELSE KIndexRead(self, response.readings[Len(response.readings)])

_evaluate_k_index_level(self, response) ==
    IF ~response.ok THEN EvaluationFailed(self, "ConnectionError")
    ELSE IF response.readings = << >> THEN EvaluationFailed(self, "IndexError")
    ELSE KIndexRead(self, response.readings[Len(response.readings)])

(***************************************************************************)
(* Aurora.send_push: the sink accepts the message (response.ok) and        *)
(* last_send_time is set, or ConnectionError is raised.                    *)
(***************************************************************************)
send_push(self, message, response_ok) ==
    IF response_ok
    THEN [raised |-> "", self |-> [self EXCEPT !.last_send_time = now]]
    ELSE [raised |-> "ConnectionError", self |-> self]

\* '\n'.join(filter(None, results))
RECURSIVE JoinLines(_)
JoinLines(lines) ==
    IF lines = << >> THEN ""
    ELSE IF Len(lines) = 1 THEN lines[1]
    ELSE lines[1] \o "\n" \o JoinLines(Tail(lines))

\* A variant of the joined list with a slip: the K-index result comes first.
FilterNoneSwapped(results) ==
    SelectSeq(<<results[2], results[1]>>, LAMBDA m : m # None /\ m # "")

FilterNone(results) == SelectSeq(results, LAMBDA m : m # None /\ m # "")

(***************************************************************************)
(* Aurora.check.  The result carries the monitor's attributes after the    *)
(* call and a record of what the call did (call), for the observation log. *)
(* a and k are what the two evaluations gave, message the joined text.     *)
(***************************************************************************)
CheckCall(self, after, a, k, returned, posted, sent, raised) ==
    [op |-> "check",
     pre_aurora |-> self.last_aurora_level, pre_k |-> self.last_k_level,
     post_aurora |-> after.last_aurora_level, post_k |-> after.last_k_level,
     aurora_value |-> a.value, k_value |-> k.value,
     aurora_result |-> a.message, k_index_result |-> k.message,
     message |-> returned, posted |-> posted, sent |-> sent, raised |-> raised]

NotEvaluated == [raised |-> "", value |-> NoValue, message |-> None]

\* if message: self.send_push(message); return message
CheckSend(self, a, k, message, p) ==
    IF message = ""
    THEN [self |-> k.self, raised |-> "",
          call |-> CheckCall(self, k.self, a, k, message, None, FALSE, "")]
    ELSE IF p.raised # ""
    THEN [self |-> p.self, raised |-> p.raised,
          call |-> CheckCall(self, p.self, a, k, None, message, FALSE, p.raised)]
    ELSE [self |-> p.self, raised |-> "",
          call |-> CheckCall(self, p.self, a, k, message, message, TRUE, "")]

\* message = '\n'.join(filter(None, [aurora_result, k_index_result]))
CheckJoin(self, inp, a, k, message) ==
    CheckSend(self, a, k, message, send_push(k.self, message, inp.push))

\* k_index_result = self._evaluate_k_index_level()
CheckKIndex(self, inp, a, k) ==
    IF k.raised # ""
    THEN [self |-> k.self, raised |-> k.raised,
          call |-> CheckCall(self, k.self, a, NotEvaluated, None, None, FALSE, k.raised)]
    ELSE CheckJoin(self, inp, a, k, JoinLines(FilterNone(<<a.message, k.message>>)))

\* aurora_result = self._evaluate_aurora_level()
CheckAurora(self, inp, a) ==
    IF a.raised # ""
    THEN [self |-> a.self, raised |-> a.raised,
          call |-> CheckCall(self, a.self, a, NotEvaluated, None, None, FALSE, a.raised)]
    ELSE CheckKIndex(self, inp, a, _evaluate_k_index_level(a.self, inp.k_index))

check(self, inp) == CheckAurora(self, inp, _evaluate_aurora_level(self, inp.aurora))

ResetCall(self, after) ==
    [op |-> "reset",
     pre_aurora |-> self.last_aurora_level, pre_k |-> self.last_k_level,
     post_aurora |-> after.last_aurora_level, post_k |-> after.last_k_level,
     aurora_value |-> NoValue, k_value |-> NoValue,
     aurora_result |-> None, k_index_result |-> None,
     message |-> None, posted |-> None, sent |-> FALSE, raised |-> ""]

\* A variant of reset with a slip: last_k_level is left as it is.
ResetAuroraOnly(self) ==
    LET after == [self EXCEPT !.last_aurora_level = 0]
    IN  [self |-> after, raised |-> "", call |-> ResetCall(self, after)]

\* A variant of reset with a slip: last_send_time is set as well.
ResetStampsSendTime(self) ==
    LET after == [self EXCEPT !.last_aurora_level = 0, !.last_k_level = 0,
                              !.last_send_time = now]
    IN  [self |-> after, raised |-> "", call |-> ResetCall(self, after)]

(***************************************************************************)
(* Aurora.reset                                                            *)
(***************************************************************************)
reset(self) ==
    LET after == [self EXCEPT !.last_aurora_level = 0, !.last_k_level = 0]
    IN  [self |-> after, raised |-> "", call |-> ResetCall(self, after)]

(***************************************************************************)
(* Observation log: the last call of check()/reset() (last), which call    *)
(* came before it (prev_op, repeat), the levels whose message was produced *)
(* since the last reset(), in order (emitted_aurora, emitted_k), and the   *)
(* levels the last reset() cleared (cleared_aurora, cleared_k).            *)
(***************************************************************************)
NoCall ==
    [op |-> "none", pre_aurora |-> 0, pre_k |-> 0, post_aurora |-> 0, post_k |-> 0,
     aurora_value |-> NoValue, k_value |-> NoValue,
     aurora_result |-> None, k_index_result |-> None,
     message |-> None, posted |-> None, sent |-> FALSE, raised |-> ""]

NoLog ==
    [last |-> NoCall, prev_op |-> "none", repeat |-> FALSE,
     emitted_aurora |-> << >>, emitted_k |-> << >>,
     cleared_aurora |-> 0, cleared_k |-> 0]

\* The call is a check() that read the same two values as the check() before it,
\* with no other call of the monitor in between.
Repeats(lg, call) ==
    /\ call.op = "check" /\ lg.last.op = "check"
    /\ call.aurora_value # NoValue /\ call.aurora_value = lg.last.aurora_value
    /\ call.k_value # NoValue /\ call.k_value = lg.last.k_value

Observe(lg, call) ==
    [last |-> call, prev_op |-> lg.last.op, repeat |-> Repeats(lg, call),
     emitted_aurora |->
        IF call.op = "reset" THEN << >>
        ELSE IF call.aurora_result # None
        THEN Append(lg.emitted_aurora, call.post_aurora) ELSE lg.emitted_aurora,
     emitted_k |->
        IF call.op = "reset" THEN << >>
        ELSE IF call.k_index_result # None
        THEN Append(lg.emitted_k, call.post_k) ELSE lg.emitted_k,
     cleared_aurora |-> IF call.op = "reset" THEN call.pre_aurora ELSE lg.cleared_aurora,
     cleared_k |-> IF call.op = "reset" THEN call.pre_k ELSE lg.cleared_k]

(***************************************************************************)
(* State after construction (Aurora.__init__, Clock.__init__)              *)
(***************************************************************************)
StartTime == 1000

NoStep ==
    [op |-> "none", event |-> 0, fired |-> << >>, due |-> << >>, results |-> << >>,
     raised |-> ""]
NoEval ==
    [done |-> FALSE, thresholds |-> << >>, current_value |-> 0, last_level |-> 0,
     result |-> [last_level |-> 0, message |-> None]]

Self ==
    [last_aurora_level |-> last_aurora_level, last_k_level |-> last_k_level,
     last_send_time |-> last_send_time]

SetSelf(self) ==
    /\ last_aurora_level' = self.last_aurora_level
    /\ last_k_level' = self.last_k_level
    /\ last_send_time' = self.last_send_time

Constructed ==
    /\ events = << >>
    /\ order = << >>
    /\ is_day = FALSE
    /\ last_send_time = 0
    /\ last_k_level = 0
    /\ last_aurora_level = 0
    /\ iterations = 0
    /\ log = NoLog
    /\ step = NoStep

Init ==
    /\ Constructed
    /\ now = StartTime
    /\ language \in Languages
    /\ pc = "api"
    /\ eval = NoEval

(***************************************************************************)
(* The monitor driven by a caller: check() and reset() in any order, on    *)
(* any responses of the feeds and of the push service.                     *)
(***************************************************************************)
Check ==
    /\ pc = "api"
    /\ \E inp \in Inputs :
         LET r == check(Self, inp)
         IN  /\ SetSelf(r.self)
             /\ log' = Observe(log, r.call)
    /\ UNCHANGED <<now, events, order, language, is_day, pc, iterations, step, eval>>

Reset ==
    /\ pc = "api"
    /\ LET r == reset(Self)
       IN  /\ SetSelf(r.self)
           /\ log' = Observe(log, r.call)
    /\ UNCHANGED <<now, events, order, language, is_day, pc, iterations, step, eval>>

TimePasses(limit) ==
    /\ now < StartTime + limit
    /\ now' = now + 1
    /\ UNCHANGED <<events, order, language, is_day, last_send_time, last_k_level,
                   last_aurora_level, pc, iterations, log, step, eval>>

Next == Check \/ Reset

Spec == Init /\ [][Next]_vars

(***************************************************************************)
(* Clock (src/clock.py).  `clock` is the object: its events dict and the   *)
(* insertion order of the dict's keys, which is the order make_step visits *)
(* them in.                                                                *)
(***************************************************************************)
EventIds == {CHECK_EVENT, RESET_EVENT}
Callbacks == {"check", "reset"}

TheClock == [events |-> events, order |-> order]

\* A variant of _calculate_next_execution_time with a slip: the delay is not added.
NextExecutionTimeNoDelay(delay) == IF delay > 0 THEN now ELSE 0

\* A variant of _calculate_next_execution_time with a slip: no inactive events.
NextExecutionTimeAlways(delay) == now + delay

\* Clock._calculate_next_execution_time
_calculate_next_execution_time(delay) == IF delay > 0 THEN now + delay ELSE 0

\* A variant of SetItem with a slip: a new key goes first.
SetItemFirst(clock, event, value) ==
    [events |-> [e \in DOMAIN clock.events \cup {event} |->
                    IF e = event THEN value ELSE clock.events[e]],
     order |-> IF event \in DOMAIN clock.events THEN clock.order
               ELSE <<event>> \o clock.order]

\* self.events[event] = value: a new key goes last, an existing key keeps its place.
SetItem(clock, event, value) ==
    [events |-> [e \in DOMAIN clock.events \cup {event} |->
                    IF e = event THEN value ELSE clock.events[e]],
     order |-> IF event \in DOMAIN clock.events THEN clock.order
               ELSE Append(clock.order, event)]

\* Clock.add
add(clock, event, callback, delay) ==
    LET next_execution_time == _calculate_next_execution_time(delay)
    IN  [clock |-> SetItem(clock, event, [timer |-> next_execution_time,
                                           function |-> callback,
                                           delay |-> delay]),
         raised |-> ""]

\* A variant of set with a slip: an id that was never added gets an entry.
SetCreatesEvent(clock, event, delay) ==
    LET next_execution_time == _calculate_next_execution_time(delay)
    IN  IF event \notin DOMAIN clock.events
        THEN [clock |-> SetItem(clock, event, [timer |-> next_execution_time,
                                               function |-> "reset",
                                               delay |-> delay]),
              raised |-> "KeyError"]
        ELSE [clock |-> [clock EXCEPT !.events[event].delay = delay,
                                      !.events[event].timer = next_execution_time],
              raised |-> ""]

\* Clock.set: self.events[event] raises KeyError for an id that is not registered,
\* before anything is assigned.
set(clock, event, delay) ==
    LET next_execution_time == _calculate_next_execution_time(delay)
    IN  IF event \notin DOMAIN clock.events
        THEN [clock |-> clock, raised |-> "KeyError"]
        ELSE [clock |-> [clock EXCEPT !.events[event].delay = delay,
                                      !.events[event].timer = next_execution_time],
              raised |-> ""]

\* Clock.remove: self.events.pop(event, None)
remove(clock, event) ==
    [clock |-> [events |-> [e \in DOMAIN clock.events \ {event} |-> clock.events[e]],
                order |-> SelectSeq(clock.order, LAMBDA e : e # event)],
     raised |-> ""]

\* A variant of the due test of make_step with a slip: an inactive event is due.
IsDueAlsoInactive(next_execution_time, current_time) ==
    next_execution_time < current_time

\* The due test of make_step: 0 < next_execution_time < current_time
IsDue(next_execution_time, current_time) ==
    0 < next_execution_time /\ next_execution_time < current_time

\* A variant of the rescheduling of make_step with a slip: the delay is added
\* to the old timer.
RescheduleFromTimer(next_execution_time, current_time, delay) ==
    next_execution_time + delay

\* The rescheduling of make_step: event_data['timer'] = current_time + delay
Reschedule(next_execution_time, current_time, delay) == current_time + delay

\* callback(): the bound method the event was registered with.
Call(function, self, inp) ==
    IF function = "check" THEN check(self, inp) ELSE reset(self)

\* What the callback returned, as make_step stores it in results.
Returned(function, r) == IF function = "check" THEN r.call.message ELSE None

(***************************************************************************)
(* Clock.make_step.  The loop over self.events.items(), from the i-th key  *)
(* on: st carries the dict, the monitor's attributes, the observation log, *)
(* the ids whose callback was called (fired, in call order), results, and  *)
(* the exception that ended the loop (raised).  inp[e] is what the feeds   *)
(* and the push service answer to the callback of event e.                 *)
(***************************************************************************)
\* d[key] = value on a dict d.
Put(d, key, value) == [k \in DOMAIN d \cup {key} |-> IF k = key THEN value ELSE d[k]]

RECURSIVE StepEvents(_, _, _, _, _)
\* A variant of StepFire with a slip: the timer is rescheduled before the
\* callback is called.
StepFireReschedulesFirst(st, visit, i, current_time, inp, event_id, event_data, r) ==
    IF r.raised # ""
    THEN [st EXCEPT !.self = r.self,
                    !.lg = Observe(st.lg, r.call),
                    !.fired = Append(@, event_id),
                    !.due = Put(@, event_id, event_data.timer),
                    !.events[event_id].timer =
                        Reschedule(event_data.timer, current_time, event_data.delay),
                    !.raised = r.raised]
    ELSE StepEvents(
           [st EXCEPT
              !.self = r.self,
              !.lg = Observe(st.lg, r.call),
              !.fired = Append(@, event_id),
              !.due = Put(@, event_id, event_data.timer),
              !.results = Put(@, event_id, Returned(event_data.function, r)),
              !.events[event_id].timer =
                  Reschedule(event_data.timer, current_time, event_data.delay)],
           visit, i + 1, current_time, inp)

\* results[event_id] = callback(); event_data['timer'] = current_time + delay
StepFire(st, visit, i, current_time, inp, event_id, event_data, r) ==
    IF r.raised # ""
    THEN [st EXCEPT !.self = r.self,
                    !.lg = Observe(st.lg, r.call),
                    !.fired = Append(@, event_id),
                    !.due = Put(@, event_id, event_data.timer),
                    !.raised = r.raised]
    ELSE StepEvents(
           [st EXCEPT
              !.self = r.self,
              !.lg = Observe(st.lg, r.call),
              !.fired = Append(@, event_id),
              !.due = Put(@, event_id, event_data.timer),
              !.results = Put(@, event_id, Returned(event_data.function, r)),
              !.events[event_id].timer =
                  Reschedule(event_data.timer, current_time, event_data.delay)],
           visit, i + 1, current_time, inp)

StepEvent(st, visit, i, current_time, inp, event_id, event_data) ==
    IF IsDue(event_data.timer, current_time)
    THEN StepFire(st, visit, i, current_time, inp, event_id, event_data,
                  Call(event_data.function, st.self, inp[event_id]))
    ELSE StepEvents(st, visit, i + 1, current_time, inp)

StepEvents(st, visit, i, current_time, inp) ==
    IF i > Len(visit) THEN st
    ELSE StepEvent(st, visit, i, current_time, inp, visit[i], st.events[visit[i]])

make_step(clock, self, lg, inp) ==
    LET current_time == now
    IN  StepEvents([events |-> clock.events, self |-> self, lg |-> lg,
                    fired |-> << >>, due |-> << >>, results |-> << >>, raised |-> ""],
                   clock.order, 1, current_time, inp)

(***************************************************************************)
(* The Clock driven by a caller: add, set, remove and make_step in any     *)
(* order on the two event ids, with check and reset as callbacks, while    *)
(* time passes.  step records the last of these operations: its name, the  *)
(* event id it was given, the exception it raised, and for make_step the   *)
(* ids whose callback it called, in order (fired), the timer each of them  *)
(* had when it was called (due), and the results it collected.             *)
(***************************************************************************)
MaxDelay == 2
ClockTicks == 3

Delays == (0 - 1) .. MaxDelay

\* The responses the callbacks get in this setting: a quiet reading (check
\* returns ""), and a failing aurora fetch (check raises ConnectionError).
ClockInputs ==
    { [aurora |-> [ok |-> TRUE, coordinates |-> << <<17, 60, 900>> >>],
       k_index |-> [ok |-> TRUE, readings |-> << 43 >>],
       push |-> TRUE],
      [aurora |-> [ok |-> FALSE, coordinates |-> << >>],
       k_index |-> [ok |-> TRUE, readings |-> << 43 >>],
       push |-> TRUE] }

StepRecord(op, event, fired, due, results, raised) ==
    [op |-> op, event |-> event, fired |-> fired, due |-> due, results |-> results,
     raised |-> raised]

SetClock(clock) ==
    /\ events' = clock.events
    /\ order' = clock.order

Add ==
    /\ pc = "api"
    /\ \E event \in EventIds, callback \in Callbacks, delay \in Delays :
         LET r == add(TheClock, event, callback, delay)
         IN  /\ SetClock(r.clock)
             /\ step' = StepRecord("add", event, << >>, << >>, << >>, r.raised)
    /\ UNCHANGED <<now, language, is_day, last_send_time, last_k_level,
                   last_aurora_level, pc, iterations, log, eval>>

Set ==
    /\ pc = "api"
    /\ \E event \in EventIds, delay \in Delays :
         LET r == set(TheClock, event, delay)
         IN  /\ SetClock(r.clock)
             /\ step' = StepRecord("set", event, << >>, << >>, << >>, r.raised)
    /\ UNCHANGED <<now, language, is_day, last_send_time, last_k_level,
                   last_aurora_level, pc, iterations, log, eval>>

Remove ==
    /\ pc = "api"
    /\ \E event \in EventIds :
         LET r == remove(TheClock, event)
         IN  /\ SetClock(r.clock)
             /\ step' = StepRecord("remove", event, << >>, << >>, << >>, r.raised)
    /\ UNCHANGED <<now, language, is_day, last_send_time, last_k_level,
                   last_aurora_level, pc, iterations, log, eval>>

MakeStep ==
    /\ pc = "api"
    /\ \E inp \in [EventIds -> ClockInputs] :
         LET st == make_step(TheClock, Self, log, inp)
         IN  /\ events' = st.events
             /\ SetSelf(st.self)
             /\ log' = st.lg
             /\ step' = StepRecord("make_step", 0, st.fired, st.due, st.results, st.raised)
    /\ UNCHANGED <<now, order, language, is_day, pc, iterations, eval>>

ClockTick == TimePasses(ClockTicks)

NextClock == Add \/ Set \/ Remove \/ MakeStep \/ ClockTick

InitClock ==
    /\ Constructed
    /\ now = StartTime
    /\ language = LANGUAGE
    /\ pc = "api"
    /\ eval = NoEval

SpecClock == InitClock /\ [][NextClock]_vars

(***************************************************************************)
(* Aurora.is_daytime: START_DAY <= datetime.now().time() <= END_DAY, on    *)
(* the clock of the model (local midnight at the multiples of a day).  The *)
(* time of day carries microseconds: during the second 19:00:00 the        *)
(* property is True at its first instant only, so either value is read.    *)
(***************************************************************************)
DAY == 24 * HOUR

is_daytime ==
    IF now % DAY = END_DAY THEN BOOLEAN
    ELSE {START_DAY <= now % DAY /\ now % DAY < END_DAY}

(***************************************************************************)
(* Aurora.update_daytime_delay.  self.is_daytime is read twice (first and  *)
(* second); is_day is assigned before Clock.set can raise.                 *)
(***************************************************************************)
\* What the second read of is_daytime can give after the first: the time of day
\* does not go back, so within the second 19:00:00 a False is not followed by
\* a True.
LaterRead(first) == {b \in is_daytime : b => first}

\* A variant of update_daytime_delay with a slip: the two delays are exchanged.
UpdateDaytimeDelaySwapped(day, clock, first, second) ==
    IF first # day
    THEN LET r == set(clock, RESET_EVENT, IF second THEN SEND_DELAY ELSE SEND_DELAY_DAY)
         IN  [is_day |-> second, clock |-> r.clock, raised |-> r.raised, called |-> TRUE]
    ELSE [is_day |-> day, clock |-> clock, raised |-> "", called |-> FALSE]

\* A variant of update_daytime_delay with a slip: the delay is set on the check
\* event.
UpdateDaytimeDelayOnCheckEvent(day, clock, first, second) ==
    IF first # day
    THEN LET r == set(clock, CHECK_EVENT, IF second THEN SEND_DELAY_DAY ELSE SEND_DELAY)
         IN  [is_day |-> second, clock |-> r.clock, raised |-> r.raised, called |-> TRUE]
    ELSE [is_day |-> day, clock |-> clock, raised |-> "", called |-> FALSE]

\* A variant of update_daytime_delay with a slip: the reset event is re-armed
\* at every call.
UpdateDaytimeDelayAlways(day, clock, first, second) ==
    LET r == set(clock, RESET_EVENT, IF second THEN SEND_DELAY_DAY ELSE SEND_DELAY)
    IN  [is_day |-> second, clock |-> r.clock, raised |-> r.raised, called |-> TRUE]

update_daytime_delay(day, clock, first, second) ==
    IF first # day
    THEN LET r == set(clock, RESET_EVENT, IF second THEN SEND_DELAY_DAY ELSE SEND_DELAY)
         IN  [is_day |-> second, clock |-> r.clock, raised |-> r.raised, called |-> TRUE]
    ELSE [is_day |-> day, clock |-> clock, raised |-> "", called |-> FALSE]

(***************************************************************************)
(* Aurora.start_loop: the two add calls, the first update_daytime_delay,   *)
(* the first check, then the while loop: make_step, update_daytime_delay,  *)
(* time.sleep(3).  An exception leaves start_loop (pc = "raised").  The    *)
(* sleep lasts 3 seconds or longer (SleepSteps); the loop is followed for  *)
(* MaxIterations passes.                                                   *)
(***************************************************************************)
MaxIterations == 4

SleepSteps == {3, MINUTE, HOUR, 4 * HOUR}

\* The time of day the monitor is started at: 05:59 and 18:59.
RunStarts == {5 * HOUR + 59 * MINUTE, 18 * HOUR + 59 * MINUTE}

\* The responses check gets in this setting: a crossing of 50 that is pushed, a
\* quiet reading, a crossing of 30 followed by a failing K-index fetch.
RunInputs ==
    { [aurora |-> [ok |-> TRUE, coordinates |-> << <<18, 60, 0>>, <<18, 60, 550>> >>],
       k_index |-> [ok |-> TRUE, readings |-> << 43 >>],
       push |-> TRUE],
      [aurora |-> [ok |-> TRUE, coordinates |-> << <<17, 60, 900>> >>],
       k_index |-> [ok |-> TRUE, readings |-> << 43 >>],
       push |-> TRUE],
      [aurora |-> [ok |-> TRUE, coordinates |-> << <<17, 60, 900>>, <<18, 60, 300>> >>],
       k_index |-> [ok |-> FALSE, readings |-> << >>],
       push |-> TRUE] }

InitRun ==
    /\ Constructed
    /\ now \in RunStarts
    /\ language = LANGUAGE
    /\ pc = "add_check"
    /\ eval = NoEval

\* The position after a call that raised or returned.
Then(raised, next) == IF raised # "" THEN "raised" ELSE next

\* self.clock.add(CHECK_EVENT, self.check, CHECK_DELAY)
RunAddCheck ==
    /\ pc = "add_check"
    /\ LET r == add(TheClock, CHECK_EVENT, "check", CHECK_DELAY)
       IN  /\ SetClock(r.clock)
           /\ step' = StepRecord("add", CHECK_EVENT, << >>, << >>, << >>, r.raised)
    /\ pc' = "add_reset"
    /\ UNCHANGED <<now, language, is_day, last_send_time, last_k_level,
                   last_aurora_level, iterations, log, eval>>

\* A variant of RunAddReset with a slip: the reset event is not registered.
RunAddResetSkipped ==
    /\ pc = "add_reset"
    /\ pc' = "first_update"
    /\ UNCHANGED <<now, events, order, language, is_day, last_send_time, last_k_level,
                   last_aurora_level, iterations, log, step, eval>>

\* self.clock.add(RESET_EVENT, self.reset, SEND_DELAY)
RunAddReset ==
    /\ pc = "add_reset"
    /\ LET r == add(TheClock, RESET_EVENT, "reset", SEND_DELAY)
       IN  /\ SetClock(r.clock)
           /\ step' = StepRecord("add", RESET_EVENT, << >>, << >>, << >>, r.raised)
    /\ pc' = "first_update"
    /\ UNCHANGED <<now, language, is_day, last_send_time, last_k_level,
                   last_aurora_level, iterations, log, eval>>

\* self.update_daytime_delay(), before the loop and in it
RunUpdateDaytimeDelay ==
    /\ pc \in {"first_update", "update"}
    /\ \E first \in is_daytime :
       \E second \in LaterRead(first) :
         LET r == update_daytime_delay(is_day, TheClock, first, second)
         IN  /\ is_day' = r.is_day
             /\ SetClock(r.clock)
             /\ step' = IF r.called
                        THEN StepRecord("set", RESET_EVENT, << >>, << >>, << >>, r.raised)
                        ELSE step
             /\ pc' = Then(r.raised, IF pc = "first_update" THEN "first_check" ELSE "sleep")
    /\ UNCHANGED <<now, language, last_send_time, last_k_level, last_aurora_level,
                   iterations, log, eval>>

\* self.check(), before the loop
RunFirstCheck ==
    /\ pc = "first_check"
    /\ \E inp \in RunInputs :
         LET r == check(Self, inp)
         IN  /\ SetSelf(r.self)
             /\ log' = Observe(log, r.call)
             /\ pc' = Then(r.raised, "make_step")
    /\ UNCHANGED <<now, events, order, language, is_day, iterations, step, eval>>

\* self.clock.make_step()
RunMakeStep ==
    /\ pc = "make_step"
    /\ \E inp \in RunInputs :
         LET st == make_step(TheClock, Self, log, [e \in EventIds |-> inp])
         IN  /\ events' = st.events
             /\ SetSelf(st.self)
             /\ log' = st.lg
             /\ step' = StepRecord("make_step", 0, st.fired, st.due, st.results, st.raised)
             /\ pc' = Then(st.raised, "update")
    /\ UNCHANGED <<now, order, language, is_day, iterations, eval>>

\* time.sleep(3)
RunSleep ==
    /\ pc = "sleep"
    /\ iterations < MaxIterations
    /\ \E seconds \in SleepSteps : now' = now + seconds
    /\ iterations' = iterations + 1
    /\ pc' = "make_step"
    /\ UNCHANGED <<events, order, language, is_day, last_send_time, last_k_level,
                   last_aurora_level, log, step, eval>>

NextRun ==
    \/ RunAddCheck \/ RunAddReset \/ RunUpdateDaytimeDelay
    \/ RunFirstCheck \/ RunMakeStep \/ RunSleep

SpecRun == InitRun /\ [][NextRun]_vars

(***************************************************************************)
(* start_loop followed for LiveDays days, with no failing response: the    *)
(* loop does not end.  A pass of the loop takes an hour or four hours here  *)
(* (the passes are not counted).  The thread keeps running: a step that   *)
(* can be taken is taken.                                                  *)
(***************************************************************************)
LiveDays == 2

Horizon == LiveDays * DAY

LiveSleepSteps == {HOUR, 4 * HOUR}

\* The responses check gets in this setting: both metrics cross a level (50
\* and 5) and the text is pushed, or a quiet reading.
LiveInputs ==
    { [aurora |-> [ok |-> TRUE, coordinates |-> << <<18, 60, 0>>, <<18, 60, 550>> >>],
       k_index |-> [ok |-> TRUE, readings |-> << 90, 57 >>],
       push |-> TRUE],
      [aurora |-> [ok |-> TRUE, coordinates |-> << <<17, 60, 900>> >>],
       k_index |-> [ok |-> TRUE, readings |-> << 43 >>],
       push |-> TRUE] }

\* self.check(), before the loop
LiveFirstCheck ==
    /\ pc = "first_check"
    /\ \E inp \in LiveInputs :
         LET r == check(Self, inp)
         IN  /\ SetSelf(r.self)
             /\ log' = Observe(log, r.call)
             /\ pc' = Then(r.raised, "make_step")
    /\ UNCHANGED <<now, events, order, language, is_day, iterations, step, eval>>

\* self.clock.make_step()
LiveMakeStep ==
    /\ pc = "make_step"
    /\ \E inp \in LiveInputs :
         LET st == make_step(TheClock, Self, log, [e \in EventIds |-> inp])
         IN  /\ events' = st.events
             /\ SetSelf(st.self)
             /\ log' = st.lg
             /\ step' = StepRecord("make_step", 0, st.fired, st.due, st.results, st.raised)
             /\ pc' = Then(st.raised, "update")
    /\ UNCHANGED <<now, order, language, is_day, iterations, eval>>

\* time.sleep(3)
LiveSleep ==
    /\ pc = "sleep"
    /\ now < Horizon
    /\ \E seconds \in LiveSleepSteps : now' = now + seconds
    /\ pc' = "make_step"
    /\ UNCHANGED <<events, order, language, is_day, last_send_time, last_k_level,
                   last_aurora_level, iterations, log, step, eval>>

NextLive ==
    \/ RunAddCheck \/ RunAddReset \/ RunUpdateDaytimeDelay
    \/ LiveFirstCheck \/ LiveMakeStep \/ LiveSleep

\* The positions of start_loop.
Positions ==
    {"add_check", "add_reset", "first_update", "first_check", "make_step", "update",
     "sleep", "raised"}

\* The thread takes its next step.  Every action of NextLive is enabled whenever
\* the thread is at its position (the sleep: before the Horizon) and moves it to
\* another position.
Continues ==
    /\ pc # "raised"
    /\ pc = "sleep" => now < Horizon
    /\ pc' \in Positions \ {pc}

SpecLive == InitRun /\ [][NextLive]_vars /\ WF_pc(Continues)

(***************************************************************************)
(* One evaluation of _get_message_from_levels on a threshold table sorted  *)
(* descending, a value and a last_level drawn from bounded sets: the       *)
(* tables of the program and every table of at most MaxTableLen entries    *)
(* with levels in 1..MaxLevel (entry i carries the message "entry i").     *)
(***************************************************************************)
MaxLevel == 3
MaxTableLen == 3

EntryMessages == <<"entry 1", "entry 2", "entry 3", "entry 4", "entry 5">>

SortedDescending(levels) == \A i, j \in DOMAIN levels : i < j => levels[i] >= levels[j]

SmallTables ==
    LET sorted(n) == {l \in [1..n -> 1..MaxLevel] : SortedDescending(l)}
    IN  UNION {{[i \in 1..n |-> <<l[i], EntryMessages[i]>>] : l \in sorted(n)}
               : n \in 0..MaxTableLen}

EvalTables ==
    SmallTables \cup {AURORA_LEVELS[l] : l \in Languages}
                \cup {K_INDEX_LEVELS[l] : l \in Languages}

EvalValues == {0, 9, 10, 25, 20 + 10 * (MaxLevel - 2), 57, 90, 299, 300, 550, 1000}
EvalLastLevels == {0, 1, 2, MaxLevel, 5, 30, 50, 90}

InitLevels ==
    /\ Constructed
    /\ now = StartTime
    /\ language = LANGUAGE
    /\ pc = "api"
    /\ eval \in [done : {FALSE}, thresholds : EvalTables, current_value : EvalValues,
                 last_level : EvalLastLevels, result : {[last_level |-> 0, message |-> None]}]

Evaluate ==
    /\ eval.done = FALSE
    /\ eval' = [eval EXCEPT
                  !.done = TRUE,
                  !.result = _get_message_from_levels(eval.current_value, eval.thresholds,
                                                      eval.last_level)]
    /\ UNCHANGED <<now, events, order, language, is_day, last_send_time, last_k_level,
                   last_aurora_level, pc, iterations, log, step>>

NextLevels == Evaluate

SpecLevels == InitLevels /\ [][NextLevels]_vars

(***************************************************************************)
(* Properties of the monitor                                               *)
(***************************************************************************)
Levels(thresholds) == {thresholds[i][1] : i \in DOMAIN thresholds}

\* The messages the table gives for a level.
MessagesOf(thresholds, level) ==
    {thresholds[i][2] : i \in {j \in DOMAIN thresholds : thresholds[j][1] = level}}

AllMessages ==
    UNION {MessagesOf(AURORA_LEVELS[language], l) : l \in Levels(AURORA_LEVELS[language])}
    \cup UNION {MessagesOf(K_INDEX_LEVELS[language], l) : l \in Levels(K_INDEX_LEVELS[language])}

\* The newline-joined text has `line` as one of its (at most two) lines.
HasLine(text, line) ==
    \/ text = line
    \/ \E other \in AllMessages :
          text = line \o "\n" \o other \/ text = other \o "\n" \o line

\* The greatest level of the table that the value reaches; 0 if it reaches none.
Reached(thresholds, value) ==
    LET reach == {l \in Levels(thresholds) : Tenths(l) <= value}
    IN  IF reach = {} THEN 0 ELSE CHOOSE l \in reach : \A m \in reach : m <= l

StrictlyIncreasing(seq) == \A i, j \in DOMAIN seq : i < j => seq[i] < seq[j]

\* C1: whenever check() moves a metric's last_level to a higher threshold T, the
\* notification sink has accepted a message with T's text during that check(),
\* also when the K-index fetch or the sink fails.
C1_CrossingIsNotified ==
    log.last.op = "check" =>
        /\ log.last.post_aurora > log.last.pre_aurora =>
              /\ log.last.sent
              /\ \E m \in MessagesOf(AURORA_LEVELS[language], log.last.post_aurora) :
                    HasLine(log.last.posted, m)
        /\ log.last.post_k > log.last.pre_k =>
              /\ log.last.sent
              /\ \E m \in MessagesOf(K_INDEX_LEVELS[language], log.last.post_k) :
                    HasLine(log.last.posted, m)

\* C2: with no reset() in between, check() never lowers a last_level, produces a
\* message only for a level above the last_level held before the call, and so
\* the levels whose message was produced since the last reset() are strictly
\* increasing (none twice).
C2_LevelsOnlyIncrease ==
    /\ log.last.op = "check" =>
          /\ log.last.post_aurora >= log.last.pre_aurora
          /\ log.last.post_k >= log.last.pre_k
          /\ log.last.aurora_result # None =>
                /\ log.last.post_aurora > log.last.pre_aurora
                /\ log.last.aurora_result
                     \in MessagesOf(AURORA_LEVELS[language], log.last.post_aurora)
          /\ log.last.k_index_result # None =>
                /\ log.last.post_k > log.last.pre_k
                /\ log.last.k_index_result
                     \in MessagesOf(K_INDEX_LEVELS[language], log.last.post_k)
    /\ StrictlyIncreasing(log.emitted_aurora)
    /\ StrictlyIncreasing(log.emitted_k)
    /\ \A i \in DOMAIN log.emitted_aurora : log.emitted_aurora[i] <= last_aurora_level
    /\ \A i \in DOMAIN log.emitted_k : log.emitted_k[i] <= last_k_level

\* Two thresholds of each metric were crossed in one window, and the last check()
\* read values below the levels held and produced nothing.
C2_Witness ==
    /\ log.emitted_aurora = <<30, 50>>
    /\ log.emitted_k = <<5, 9>>
    /\ log.last.op = "check"
    /\ log.last.aurora_value = 300 /\ log.last.k_value = 57
    /\ log.last.message = ""

\* C4: a check() that reads the same aurora and K-index values as the check()
\* just before it (no reset() in between) returns the empty message, passes
\* nothing to the sink and leaves both last_level values as they were.
C4_RepeatedCheckIsSilent ==
    (log.last.op = "check" /\ log.repeat) =>
        /\ log.last.message = ""
        /\ log.last.posted = None /\ ~log.last.sent
        /\ log.last.raised = ""
        /\ log.last.post_aurora = log.last.pre_aurora
        /\ log.last.post_k = log.last.pre_k
        /\ last_aurora_level = log.last.pre_aurora
        /\ last_k_level = log.last.pre_k

\* The second of two check() calls on the values 55 and 5.7, the first of which
\* crossed the levels 50 and 5.
C4_Witness ==
    /\ log.last.op = "check" /\ log.repeat
    /\ log.last.aurora_value = 550 /\ log.last.k_value = 57
    /\ log.emitted_aurora = <<50>> /\ log.emitted_k = <<5>>

\* C5: reset() sets both last_level values to 0 whatever they were, and the
\* check() after a reset() produces the message of the greatest threshold its
\* value reaches, also one produced before the reset(); when that check()
\* returns, the message it returns and the sink accepts has that text.
C5_ResetRearms ==
    /\ log.last.op = "reset" =>
          /\ last_aurora_level = 0 /\ last_k_level = 0
          /\ log.last.post_aurora = 0 /\ log.last.post_k = 0
    /\ (log.last.op = "check" /\ log.prev_op = "reset") =>
          /\ (log.last.aurora_value # NoValue
              /\ Reached(AURORA_LEVELS[language], log.last.aurora_value) > 0) =>
                /\ log.last.post_aurora
                     = Reached(AURORA_LEVELS[language], log.last.aurora_value)
                /\ log.last.aurora_result
                     \in MessagesOf(AURORA_LEVELS[language], log.last.post_aurora)
                /\ log.last.raised = "" =>
                      /\ log.last.sent /\ log.last.message = log.last.posted
                      /\ HasLine(log.last.message, log.last.aurora_result)
          /\ (log.last.k_value # NoValue
              /\ Reached(K_INDEX_LEVELS[language], log.last.k_value) > 0) =>
                /\ log.last.post_k
                     = Reached(K_INDEX_LEVELS[language], log.last.k_value)
                /\ log.last.k_index_result
                     \in MessagesOf(K_INDEX_LEVELS[language], log.last.post_k)
                /\ log.last.raised = "" =>
                      /\ log.last.sent /\ log.last.message = log.last.posted
                      /\ HasLine(log.last.message, log.last.k_index_result)

\* The reset() cleared the levels 50 and 9, and the check() after it read 55 and
\* 9.0 and produced the messages of 50 and 9 again.
C5_Witness ==
    /\ log.last.op = "check" /\ log.prev_op = "reset"
    /\ log.cleared_aurora = 50 /\ log.cleared_k = 9
    /\ log.last.aurora_value = 550 /\ log.last.k_value = 90
    /\ log.last.post_aurora = 50 /\ log.last.post_k = 9
    /\ log.last.sent
    /\ log.emitted_aurora = <<50>> /\ log.emitted_k = <<9>>

\* check(self, inp) fetches the K-index feed: the aurora evaluation returned.
KIndexFetched(self, inp) == _evaluate_aurora_level(self, inp.aurora).raised = ""

\* C11: from every reachable state, a check() in which a feed that is fetched
\* answers with a non-success status raises ConnectionError, returns nothing
\* and does not invoke the sink (last_send_time stays); so a check() that
\* raised ConnectionError before reading the K-index has posted nothing, also
\* when its aurora evaluation had produced a message.
C11_FetchFailureAborts ==
    /\ \A inp \in Inputs :
          (~inp.aurora.ok \/ (KIndexFetched(Self, inp) /\ ~inp.k_index.ok)) =>
             /\ check(Self, inp).raised = "ConnectionError"
             /\ check(Self, inp).call.message = None
             /\ check(Self, inp).call.posted = None
             /\ ~check(Self, inp).call.sent
             /\ check(Self, inp).self.last_send_time = last_send_time
    /\ (log.last.op = "check" /\ log.last.raised = "ConnectionError"
        /\ log.last.k_value = NoValue) =>
          /\ log.last.posted = None /\ ~log.last.sent /\ log.last.message = None

\* The aurora evaluation of the last check() produced the message of the level
\* 50, the K-index fetch then failed, and nothing was posted.
C11_Witness ==
    /\ log.last.op = "check" /\ log.last.raised = "ConnectionError"
    /\ log.last.aurora_value = 550
    /\ log.last.aurora_result \in MessagesOf(AURORA_LEVELS[language], 50)
    /\ log.last.k_value = NoValue
    /\ log.last.posted = None /\ ~log.last.sent
    /\ last_send_time = 0

\* C14: reset() called when both last_level values are 0 changes no attribute
\* of the monitor; no reset() returns a message or invokes the sink; and
\* reset() after reset() leaves what the first reset() left.
C14_ResetIdempotent ==
    /\ (last_aurora_level = 0 /\ last_k_level = 0) => reset(Self).self = Self
    /\ reset(reset(Self).self).self = reset(Self).self
    /\ reset(Self).call.message = None /\ reset(Self).call.posted = None
    /\ ~reset(Self).call.sent /\ reset(Self).raised = ""
    /\ log.last.op = "reset" =>
          /\ log.last.message = None /\ log.last.posted = None /\ ~log.last.sent
          /\ log.prev_op = "reset" =>
                /\ log.last.pre_aurora = 0 /\ log.last.pre_k = 0
                /\ log.last.post_aurora = 0 /\ log.last.post_k = 0
                /\ log.cleared_aurora = 0 /\ log.cleared_k = 0

\* A reset() has followed a reset(), after a notification was sent: it found
\* both levels 0 and the time of the last send is still there.
C14_Witness ==
    /\ log.last.op = "reset" /\ log.prev_op = "reset"
    /\ log.last.pre_aurora = 0 /\ log.last.pre_k = 0
    /\ last_aurora_level = 0 /\ last_k_level = 0
    /\ last_send_time > 0

\* '\n'.join of the messages the two evaluations produced, the aurora one first.
Joined(aurora_result, k_index_result) ==
    IF aurora_result # None /\ k_index_result # None
    THEN aurora_result \o "\n" \o k_index_result
    ELSE IF aurora_result # None THEN aurora_result
    ELSE IF k_index_result # None THEN k_index_result
    ELSE ""

C18_CheckAtomicOnFailure ==
    (log.last.op = "check" /\ log.last.raised # "") =>
        /\ log.last.post_aurora = log.last.pre_aurora
        /\ log.last.post_k = log.last.pre_k

(***************************************************************************)
(* Properties of one evaluation                                            *)
(***************************************************************************)
\* C3: on a table sorted descending, if the greatest level T that the value
\* reaches exists and is above last_level, the evaluation sets last_level to T
\* and gives T's message (not a lower threshold's); otherwise it gives no message
\* and leaves last_level as it was.
C3_GreatestReachedLevel ==
    eval.done =>
        LET T == Reached(eval.thresholds, eval.current_value)
        IN  IF T > 0 /\ T > eval.last_level
            THEN /\ eval.result.last_level = T
                 /\ eval.result.message \in MessagesOf(eval.thresholds, T)
            ELSE eval.result = [last_level |-> eval.last_level, message |-> None]

\* Thresholds {30,50,70,80,90} (English), last_level 0, value 55: the level-50
\* message only, and last_level 50.
C3_Witness ==
    /\ eval.done
    /\ eval.thresholds = AURORA_LEVELS["en"]
    /\ eval.last_level = 0 /\ eval.current_value = 550
    /\ eval.result = [last_level |-> 50,
                      message |-> "Locally: 50. Something might happen. Take a break."]

(***************************************************************************)
(* Properties of the Clock                                                 *)
(***************************************************************************)
\* The events of the sequence, in its order, are in the order of `within`.
InOrderOf(seq, within) ==
    \A i, j \in DOMAIN seq :
       i < j => \E a, b \in DOMAIN within : a < b /\ within[a] = seq[i] /\ within[b] = seq[j]

\* The step is an add, a set, a make_step of the caller of the Clock.
AddStep == step'.op = "add" /\ now' = now /\ Add
SetStep == step'.op = "set" /\ now' = now /\ Set
MakeStepStep == step'.op = "make_step" /\ now' = now /\ MakeStep

\* An event that is armed at this clock reading: its delay is positive and its
\* timer is now + delay.
ArmedNow(e) ==
    e \in DOMAIN events /\ events[e].delay > 0 /\ events[e].timer = now + events[e].delay

\* C6: after add(event_id, callback, d) with d > 0 the event's next-due is
\* strictly greater than the current time, and a make_step at the clock reading
\* at which an event was armed does not call that event's callback, returns no
\* result for it and leaves its entry as it is.
C6_NotFiredAtRegistration ==
    [][/\ AddStep =>
             \A e \in DOMAIN events' :
                (step'.event = e /\ events'[e].delay > 0) => events'[e].timer > now
       /\ MakeStepStep =>
             \A e \in EventIds :
                ArmedNow(e) =>
                   /\ \A i \in DOMAIN step'.fired : step'.fired[i] # e
                   /\ e \notin DOMAIN step'.results
                   /\ events'[e] = events[e]]_vars

\* A make_step has just returned nothing and left alone the event that add has
\* armed at this clock reading.
C6_Witness ==
    /\ step.op = "make_step" /\ step.fired = << >> /\ step.results = << >>
    /\ \E e \in DOMAIN events : events[e].delay > 0 /\ events[e].timer = now + events[e].delay

\* C7: a make_step that happens at least d seconds after an event with delay
\* d > 0 was armed (exactly d seconds included) calls the event's callback and
\* leaves its next-due at the current time + d.  (Stated for the steps in which
\* no callback raises.)
C7_FiresWhenDelayElapsed ==
    [][(MakeStepStep /\ step'.raised = "") =>
          \A e \in DOMAIN events :
             (events[e].delay > 0 /\ events[e].timer > 0 /\ now >= events[e].timer) =>
                /\ e \in DOMAIN step'.results
                /\ events'[e].timer = now + events[e].delay]_vars

\* C8: one make_step calls the callback of each event at most once, however many
\* delays have passed since its next-due, and an event whose callback returned
\* has next-due = the step's current time + delay, not its old next-due + delay.
C8_FiresOncePerStep ==
    [][MakeStepStep =>
          /\ \A i, j \in DOMAIN step'.fired : step'.fired[i] = step'.fired[j] => i = j
          /\ \A i \in DOMAIN step'.fired : step'.fired[i] \in DOMAIN events
          /\ \A e \in DOMAIN step'.results :
                /\ events'[e].timer = now + events[e].delay
                /\ events'[e].delay = events[e].delay
          /\ \A e \in DOMAIN events \ DOMAIN step'.results : events'[e] = events[e]]_vars

\* An event with delay 1 was called once by a make_step that came 2 seconds
\* after its next-due, and is due again 1 second after that step.
C8_Witness ==
    /\ step.op = "make_step"
    /\ \E e \in DOMAIN step.results :
          /\ events[e].delay = 1
          /\ step.due[e] + 2 = now
          /\ events[e].timer = now + 1
          /\ step.fired = <<e>>

\* C9: set(event_id, delay) on an id that is not registered (never added, or
\* removed) raises KeyError and leaves the Clock as it was: no entry for the
\* id, every other entry unchanged; on a registered id it does not raise.
C9_SetUnknownEventFails ==
    [][SetStep =>
          /\ step'.raised = "KeyError" <=> step'.event \notin DOMAIN events
          /\ step'.event \notin DOMAIN events => (events' = events /\ order' = order)]_vars

\* A set has just raised KeyError for an id that is not registered, while the
\* other id is registered and armed.
C9_Witness ==
    /\ step.op = "set" /\ step.raised = "KeyError"
    /\ step.event \notin DOMAIN events
    /\ \E e \in DOMAIN events : events[e].timer > 0

\* The entry that add and set give an event for a delay: next-due = now + delay
\* if delay > 0, else 0.
NextDue(delay) == IF delay > 0 THEN now + delay ELSE 0

\* C13: add and set with delay <= 0 leave the event with next-due = 0, and with
\* delay > 0 with next-due = now + delay; add on an id, registered or not,
\* replaces the whole entry (callback, delay, next-due) by this rule; an event
\* with delay <= 0 has next-due = 0 for as long as no add or set gives it a
\* positive delay, and no make_step, at any clock reading, calls its callback
\* or changes its entry.
C13_InactiveNeverFires ==
    /\ [](\A event \in EventIds, delay \in Delays :
            /\ \A callback \in Callbacks :
                  add(TheClock, event, callback, delay).clock.events[event]
                    = [timer |-> NextDue(delay), function |-> callback, delay |-> delay]
            /\ event \in DOMAIN events =>
                  set(TheClock, event, delay).clock.events[event]
                    = [timer |-> NextDue(delay), function |-> events[event].function,
                       delay |-> delay])
    /\ [](\A e \in DOMAIN events : events[e].delay <= 0 => events[e].timer = 0)
    /\ [][MakeStepStep =>
             \A e \in DOMAIN events :
                events[e].delay <= 0 =>
                   /\ \A i \in DOMAIN step'.fired : step'.fired[i] # e
                   /\ e \notin DOMAIN step'.results
                   /\ events'[e] = events[e]]_vars

\* A make_step 2 seconds or more after the start has called the callback of one
\* event and passed over the other one, whose delay is 0.
C13_Witness ==
    /\ step.op = "make_step" /\ now >= StartTime + 2
    /\ Len(step.fired) = 1
    /\ \E e \in DOMAIN events :
          /\ events[e].delay = 0 /\ events[e].timer = 0
          /\ step.fired[1] # e

\* C19: every registered event has next-due > 0 if and only if its delay > 0,
\* and next-due = 0 otherwise (never negative); an event whose callback
\* make_step calls has delay > 0, and when the callback returns its next-due is
\* strictly greater than the current time of the step.
C19_SchedulerInvariant ==
    /\ [](\A e \in DOMAIN events :
            /\ events[e].timer >= 0
            /\ events[e].timer > 0 <=> events[e].delay > 0
            /\ events[e].delay <= 0 => events[e].timer = 0)
    /\ [][MakeStepStep =>
             \A i \in DOMAIN step'.fired :
                /\ events[step'.fired[i]].delay > 0
                /\ step'.fired[i] \in DOMAIN step'.results =>
                      events'[step'.fired[i]].timer > now]_vars

\* One event is inactive with a negative delay while a make_step has fired and
\* rescheduled the other one.
C19_Witness ==
    /\ step.op = "make_step"
    /\ \E e \in DOMAIN step.results, f \in DOMAIN events :
          /\ events[e].delay > 0 /\ events[e].timer > now
          /\ events[f].delay < 0 /\ events[f].timer = 0

\* The position of an event id in the order of the keys.
PositionOf(e, within) == CHOOSE k \in DOMAIN within : within[k] = e

\* C20: a make_step in which a callback raises ends with that error: the
\* raising event is the last one called, it has no result and its entry is as
\* before, so it is still due; no event registered after it is called or
\* changed; every event called before it has a result and next-due = the
\* current time + its delay.
C20_CallbackFailure ==
    [][(MakeStepStep /\ step'.raised # "") =>
          /\ Len(step'.fired) >= 1
          /\ InOrderOf(step'.fired, order)
          /\ log'.last.raised = step'.raised
          /\ LET n == Len(step'.fired)
                 e == step'.fired[Len(step'.fired)]
             IN  /\ e \in DOMAIN events /\ e \notin DOMAIN step'.results
                 /\ events'[e] = events[e]
                 /\ IsDue(events'[e].timer, now)
                 /\ \A i \in 1 .. (n - 1) :
                       /\ step'.fired[i] \in DOMAIN step'.results
                       /\ events'[step'.fired[i]].timer
                            = now + events[step'.fired[i]].delay
                 /\ \A k \in DOMAIN order :
                       k > PositionOf(e, order) =>
                          /\ \A i \in DOMAIN step'.fired : step'.fired[i] # order[k]
                          /\ events'[order[k]] = events[order[k]]]_vars

\* A make_step called a first callback, which returned, and then a second one,
\* which raised: the first event is rescheduled and the second is still due.
C20_Witness ==
    /\ step.op = "make_step" /\ step.raised = "ConnectionError"
    /\ Len(step.fired) = 2
    /\ DOMAIN step.results = {step.fired[1]}
    /\ events[step.fired[1]].timer = now + events[step.fired[1]].delay
    /\ IsDue(events[step.fired[2]].timer, now)

(***************************************************************************)
(* Properties of start_loop                                                *)
(***************************************************************************)
BothDue ==
    /\ DOMAIN events = {CHECK_EVENT, RESET_EVENT}
    /\ IsDue(events[CHECK_EVENT].timer, now)
    /\ IsDue(events[RESET_EVENT].timer, now)

\* C10 as stated: a make_step of the loop in which both events are due runs
\* check() first and reset() second and ends with both last_level values 0.
C10_CheckThenResetAlways ==
    [][(RunMakeStep /\ BothDue) =>
          /\ step'.fired = <<CHECK_EVENT, RESET_EVENT>>
          /\ last_aurora_level' = 0 /\ last_k_level' = 0]_vars

\* C10, amended: make_step calls the callbacks of due events in registration
\* order, the check event before the reset event in the monitor.  A step of the
\* loop in which both are due calls check() first, on the last_level values not
\* yet reset; if check() returns, reset() runs second and the step ends with both
\* last_level values 0; if check() raises, the step ends there, reset() is not
\* called and the reset event stays due.
C10_CheckThenReset ==
    [][RunMakeStep =>
          /\ order = <<CHECK_EVENT, RESET_EVENT>>
          /\ InOrderOf(step'.fired, order)
          /\ BothDue =>
                /\ step'.fired[1] = CHECK_EVENT
                /\ step'.raised = "" =>
                      /\ step'.fired = <<CHECK_EVENT, RESET_EVENT>>
                      /\ DOMAIN step'.results = {CHECK_EVENT, RESET_EVENT}
                      /\ log'.last.op = "reset" /\ log'.prev_op = "check"
                      /\ log'.last.pre_aurora >= last_aurora_level
                      /\ log'.last.pre_k >= last_k_level
                      /\ last_aurora_level' = 0 /\ last_k_level' = 0
                /\ step'.raised # "" =>
                      /\ step'.fired = <<CHECK_EVENT>>
                      /\ log'.last.op = "check" /\ log'.last.raised = step'.raised
                      /\ log'.last.pre_aurora = last_aurora_level
                      /\ log'.last.pre_k = last_k_level
                      /\ events'[RESET_EVENT] = events[RESET_EVENT]]_vars

\* A step of the loop has called check() and then reset(): the check crossed the
\* level 50 on the level it found, and the reset cleared it.
C10_Witness ==
    /\ pc = "update"
    /\ step.op = "make_step" /\ step.fired = <<CHECK_EVENT, RESET_EVENT>>
    /\ step.results[CHECK_EVENT] # "" /\ step.results[RESET_EVENT] = None
    /\ log.last.op = "reset" /\ log.prev_op = "check"
    /\ log.last.pre_aurora = 50
    /\ last_aurora_level = 0 /\ last_k_level = 0

\* The step is an update_daytime_delay of start_loop.
UpdateStep == pc \in {"first_update", "update"} /\ pc' # pc /\ RunUpdateDaytimeDelay

\* The entry of the reset event re-armed now for the day (4 hours) or for the
\* night (1 hour).
Rearmed(day) ==
    [timer |-> now + (IF day THEN SEND_DELAY_DAY ELSE SEND_DELAY),
     function |-> events[RESET_EVENT].function,
     delay |-> IF day THEN SEND_DELAY_DAY ELSE SEND_DELAY]

\* C12: update_daytime_delay changes is_day exactly when the day/night boolean
\* differs from it; then is_day is that boolean and the reset event has the
\* daytime delay if it is day, else the night delay, and next-due = now + that
\* delay, whatever its next-due was; when is_day stays, the reset event's delay
\* and next-due stay too.  The check event, the registered ids and their order
\* are never changed, and the call does not raise.
C12_PolicyRearmsReset ==
    [][UpdateStep =>
          /\ DOMAIN events' = DOMAIN events /\ order' = order
          /\ events'[CHECK_EVENT] = events[CHECK_EVENT]
          /\ is_day \notin is_daytime => is_day' # is_day
          /\ is_daytime = {is_day} => is_day' = is_day
          /\ is_day' # is_day =>
                /\ is_day' \in is_daytime
                /\ events'[RESET_EVENT] = Rearmed(is_day')
          /\ is_day' = is_day => events' = events
          /\ pc' # "raised"]_vars

\* In the loop, the policy has found that it is day by now and has re-armed
\* the reset event for 4 hours from now; the check event is as the make_step
\* before left it.
C12_Witness ==
    /\ pc = "sleep" /\ iterations >= 1
    /\ is_day /\ now % DAY >= START_DAY
    /\ step.op = "set" /\ step.event = RESET_EVENT /\ step.raised = ""
    /\ events[RESET_EVENT].delay = SEND_DELAY_DAY
    /\ events[RESET_EVENT].timer = now + SEND_DELAY_DAY
    /\ events[CHECK_EVENT].delay = CHECK_DELAY
    /\ events[CHECK_EVENT].timer = now + CHECK_DELAY

\* The positions of start_loop before its while loop.
BeforeLoop == {"add_check", "add_reset", "first_update", "first_check"}

\* C17: start_loop registers the check event, then the reset event, then
\* applies the day/night policy once, then calls check() once, and only then
\* iterates make_step -> update_daytime_delay -> sleep.  So no make_step happens
\* before a check(), the reset event is registered when the policy is first
\* applied, and no set raises KeyError.
C17_StartOrder ==
    /\ [](/\ pc = "add_check" => (events = << >> /\ order = << >>)
          /\ pc = "add_reset" =>
                (order = <<CHECK_EVENT>> /\ step.op = "add" /\ step.event = CHECK_EVENT)
          /\ pc = "first_update" =>
                (order = <<CHECK_EVENT, RESET_EVENT>>
                 /\ step.op = "add" /\ step.event = RESET_EVENT)
          /\ pc = "first_check" =>
                (order = <<CHECK_EVENT, RESET_EVENT>> /\ step.op \in {"add", "set"})
          /\ pc \in BeforeLoop => (log.last.op = "none" /\ iterations = 0)
          /\ step.op = "make_step" =>
                (log.last.op # "none" /\ order = <<CHECK_EVENT, RESET_EVENT>>)
          /\ step.op = "set" => step.event \in DOMAIN events
          /\ step.raised # "KeyError")
    /\ [][/\ pc = "add_check" => pc' = "add_reset"
          /\ pc = "add_reset" => pc' = "first_update"
          /\ pc = "first_update" => pc' = "first_check"
          /\ pc = "first_check" =>
                (pc' \in {"make_step", "raised"} /\ log'.last.op = "check"
                 /\ step' = step /\ events' = events)
          /\ pc = "make_step" => (pc' \in {"update", "raised"} /\ step'.op = "make_step")
          /\ pc = "update" => (pc' = "sleep" /\ log' = log)
          /\ pc = "sleep" => (pc' = "make_step" /\ now' > now /\ events' = events)
          /\ pc # "raised"]_vars

\* The first pass of the loop is at its sleep: the two events are registered in
\* this order, the one check() so far was the immediate one, and the first
\* make_step found nothing due.
C17_Witness ==
    /\ pc = "sleep" /\ iterations = 0
    /\ order = <<CHECK_EVENT, RESET_EVENT>>
    /\ log.last.op = "check" /\ log.prev_op = "none"
    /\ step.op = "make_step" /\ step.fired = << >>

\* C21: in every state of start_loop after the two events are registered, the
\* reset event's delay is SEND_DELAY_DAY (4 hours) if is_day is true and
\* SEND_DELAY (1 hour) if it is false, and the check event's delay is
\* CHECK_DELAY (1 minute); both events stay registered with their callbacks.
C21_DelayFollowsIsDay ==
    pc \notin {"add_check", "add_reset"} =>
        /\ DOMAIN events = {CHECK_EVENT, RESET_EVENT}
        /\ events[RESET_EVENT].delay = (IF is_day THEN SEND_DELAY_DAY ELSE SEND_DELAY)
        /\ events[RESET_EVENT].function = "reset"
        /\ events[CHECK_EVENT].delay = CHECK_DELAY
        /\ events[CHECK_EVENT].function = "check"

\* After nightfall, in the loop: is_day was true during the day and is false
\* again, the policy has set the reset event back to 1 hour, and the check
\* event, which has fired since, still has 1 minute.
C21_Witness ==
    /\ pc = "sleep" /\ iterations >= 2
    /\ ~is_day /\ now % DAY > END_DAY
    /\ step.op = "set" /\ step.event = RESET_EVENT
    /\ events[RESET_EVENT].delay = SEND_DELAY
    /\ events[CHECK_EVENT].delay = CHECK_DELAY
    /\ events[CHECK_EVENT].timer > now
    /\ log.last.op = "check" /\ log.prev_op = "check"

(***************************************************************************)
(* Liveness of the run loop                                                *)
(***************************************************************************)
\* The time to the end of the days followed that is left for the reset event
\* to fire: a daytime delay and a pass of the loop.
LiveWindow == SEND_DELAY_DAY + 4 * HOUR

Early == now <= Horizon - LiveWindow

\* The last make_step called reset().
ResetFired == step.op = "make_step" /\ RESET_EVENT \in DOMAIN step.results

\* C16: while the loop keeps iterating without errors and time advances, a
\* last_level above 0 leads to that last_level being 0 again, and at every
\* position of the loop a later make_step calls reset(); also across the
\* day/night transitions, which re-arm the reset event.  (Stated for the
\* states LiveWindow or more before the end of the days followed.)
C16_ResetEventuallyFires ==
    /\ (Early /\ last_aurora_level > 0) ~> (last_aurora_level = 0)
    /\ (Early /\ last_k_level > 0) ~> (last_k_level = 0)
    /\ (Early /\ pc = "update") ~> (pc = "update" /\ ResetFired)

\* In the daytime of the second day, after the reset event was re-armed at
\* nightfall and in the morning, a make_step has called reset() and cleared the
\* levels 50 and 5.
C16_Witness ==
    /\ now > DAY + START_DAY /\ is_day
    /\ events[RESET_EVENT].delay = SEND_DELAY_DAY
    /\ ResetFired
    /\ log.last.op = "reset"
    /\ log.cleared_aurora = 50 /\ log.cleared_k = 5
    /\ last_aurora_level = 0 /\ last_k_level = 0

====
